---- MODULE Spec2Model ----
(***************************************************************************)
(* Model of batalhaNaval.c: a 10x10 naval-battle board, manual placement   *)
(* of four ships, three special attacks (cone, cross, octahedron) and the  *)
(* game statistics.                                                        *)
(*                                                                         *)
(* Three specifications share the variables:                               *)
(*   Spec        - main(): placement phase, pattern creation, 3 attacks.   *)
(*   SpecNucleo  - a driver calling posicionarNavio and                    *)
(*                 aplicarHabilidadeNoTabuleiro in any order.              *)
(*   SpecPadrao  - a driver calling the three criarHabilidade* functions   *)
(*                 on buffers with arbitrary previous content.             *)
(*   SpecAtaque  - a driver calling aplicarHabilidadeNoTabuleiro on a      *)
(*                 fresh board, any pattern at any of the 100 centres.     *)
(***************************************************************************)
EXTENDS Integers, Sequences, FiniteSets, TLC

VARIABLES
    pc,           \* position in main() / name of the driver
    tabuleiro,    \* int tabuleiro[10][10]
    navios,       \* Navio navios[MAX_NAVIOS], indexed 0..3
    stats,        \* EstatisticasJogo stats
    iNavio,       \* loop variable i of posicionarNaviosManualmente
    tentativas,   \* local tentativas of posicionarNaviosManualmente
    iAtaque,      \* which of the three attacks of main() comes next
    ataques,      \* Coordenada ataques[3] of main(), indexed 0..2
    habilidades,  \* the three 5x5 matrices habilidadeCone/Cruz/Octaedro
    chamada,      \* the last call made: its arguments, locals and result
    nOps          \* number of calls made by a driver

vars == <<pc, tabuleiro, navios, stats, iNavio, tentativas, iAtaque, ataques,
          habilidades, chamada, nOps>>

(***************************************************************************)
(* Program constants (#define)                                             *)
(***************************************************************************)
TAMANHO_TABULEIRO == 10
TAMANHO_HABILIDADE == 5
MAX_NAVIOS == 4

POSICAO_VAZIA == 0
POSICAO_NAVIO == 3
POSICAO_ATINGIDA == 2
POSICAO_AGUA_ATINGIDA == 1

AREA_NAO_AFETADA == 0
AREA_AFETADA == 1

SUCESSO == 1
ERRO_POSICAO_OCUPADA == -1
ERRO_FORA_LIMITES == -2

maxTentativas == 5

(***************************************************************************)
(* Bounds of the drivers                                                   *)
(***************************************************************************)
MaxOps == 3
MaxAtaques == 1

Linhas == 0 .. (TAMANHO_TABULEIRO - 1)
Celulas == Linhas \X Linhas
IndicesHab == 0 .. (TAMANHO_HABILIDADE - 1)

Coord(l, c) == [linha |-> l, coluna |-> c]

(***************************************************************************)
(* Initialisation                                                          *)
(***************************************************************************)
inicializarTabuleiro == [p \in Celulas |-> POSICAO_VAZIA]

\* Mutant: the matrix is not cleared.
inicializarMatrizHabilidade_SemLimpar(matriz) == matriz

inicializarMatrizHabilidade(matriz) ==
    [p \in DOMAIN matriz |-> AREA_NAO_AFETADA]

inicializarEstatisticas ==
    [naviosDestruidos |-> 0, totalTiros |-> 0, acertos |-> 0, erros |-> 0]

(***************************************************************************)
(* Validation                                                              *)
(***************************************************************************)
\* Mutant: column 0 is taken to be outside the board.
coordenadaValida_SemColunaZero(linha, coluna) ==
    /\ linha >= 0
    /\ linha < TAMANHO_TABULEIRO
    /\ coluna > 0
    /\ coluna < TAMANHO_TABULEIRO

coordenadaValida(linha, coluna) ==
    /\ linha >= 0
    /\ linha < TAMANHO_TABULEIRO
    /\ coluna >= 0
    /\ coluna < TAMANHO_TABULEIRO

\* Mutant: a cell counts as available unless it holds an intact ship.
posicaoDisponivel_SoLimites(tab, linha, coluna) ==
    coordenadaValida(linha, coluna)

posicaoDisponivel_SoNavioOcupa(tab, linha, coluna) ==
    /\ coordenadaValida(linha, coluna)
    /\ tab[linha, coluna] # POSICAO_NAVIO

posicaoDisponivel(tab, linha, coluna) ==
    /\ coordenadaValida(linha, coluna)
    /\ tab[linha, coluna] = POSICAO_VAZIA

(***************************************************************************)
(* Ship placement                                                          *)
(***************************************************************************)
\* Mutant: the diagonal step forgets the column.
proximaCoordenada_DiagonalSemColuna(coord, orientacao) ==
    CASE orientacao = "H" -> [coord EXCEPT !.coluna = @ + 1]
      [] orientacao = "V" -> [coord EXCEPT !.linha = @ + 1]
      [] orientacao = "D" -> [coord EXCEPT !.linha = @ + 1]
      [] OTHER -> coord

proximaCoordenada(coord, orientacao) ==
    CASE orientacao = "H" -> [coord EXCEPT !.coluna = @ + 1]
      [] orientacao = "V" -> [coord EXCEPT !.linha = @ + 1]
      [] orientacao = "D" -> [coord EXCEPT !.linha = @ + 1, !.coluna = @ + 1]
      [] OTHER -> coord

\* Mutant: the two error codes of the first pass are exchanged.
RECURSIVE PrimeiraPassada_CodigosTrocados(_, _, _, _, _)
PrimeiraPassada_CodigosTrocados(tab, navio, i, coord, coordenadas) ==
    IF i >= navio.tamanho
    THEN [retorno |-> SUCESSO, coordenadas |-> coordenadas]
    ELSE IF ~posicaoDisponivel(tab, coord.linha, coord.coluna)
         THEN IF ~coordenadaValida(coord.linha, coord.coluna)
              THEN [retorno |-> ERRO_POSICAO_OCUPADA, coordenadas |-> coordenadas]
              ELSE [retorno |-> ERRO_FORA_LIMITES, coordenadas |-> coordenadas]
         ELSE PrimeiraPassada_CodigosTrocados(tab, navio, i + 1,
                              proximaCoordenada(coord, navio.orientacao),
                              Append(coordenadas, coord))

\* First pass of posicionarNavio from loop index i with current coord and
\* the coordinates stored so far: either an error code or the full array.
RECURSIVE PrimeiraPassada(_, _, _, _, _)
PrimeiraPassada(tab, navio, i, coord, coordenadas) ==
    IF i >= navio.tamanho
    THEN [retorno |-> SUCESSO, coordenadas |-> coordenadas]
    ELSE IF ~posicaoDisponivel(tab, coord.linha, coord.coluna)
         THEN IF ~coordenadaValida(coord.linha, coord.coluna)
              THEN [retorno |-> ERRO_FORA_LIMITES, coordenadas |-> coordenadas]
              ELSE [retorno |-> ERRO_POSICAO_OCUPADA, coordenadas |-> coordenadas]
         ELSE PrimeiraPassada(tab, navio, i + 1,
                              proximaCoordenada(coord, navio.orientacao),
                              Append(coordenadas, coord))

\* Second pass of posicionarNavio: write POSICAO_NAVIO at coordenadas[i..].
RECURSIVE SegundaPassada(_, _, _)
SegundaPassada(tab, coordenadas, i) ==
    IF i > Len(coordenadas)
    THEN tab
    ELSE SegundaPassada(
             [tab EXCEPT ![coordenadas[i].linha, coordenadas[i].coluna] = POSICAO_NAVIO],
             coordenadas, i + 1)

\* Mutant: a single pass that writes each cell as soon as it is validated, so
\* a failure leaves the cells written before it.
RECURSIVE PassadaUnica(_, _, _, _)
PassadaUnica(tab, navio, i, coord) ==
    IF i >= navio.tamanho
    THEN [retorno |-> SUCESSO, tabuleiro |-> tab]
    ELSE IF ~posicaoDisponivel(tab, coord.linha, coord.coluna)
         THEN IF ~coordenadaValida(coord.linha, coord.coluna)
              THEN [retorno |-> ERRO_FORA_LIMITES, tabuleiro |-> tab]
              ELSE [retorno |-> ERRO_POSICAO_OCUPADA, tabuleiro |-> tab]
         ELSE PassadaUnica([tab EXCEPT ![coord.linha, coord.coluna] = POSICAO_NAVIO],
                           navio, i + 1, proximaCoordenada(coord, navio.orientacao))

posicionarNavio_SemRollback(tab, navio) ==
    PassadaUnica(tab, navio, 0, navio.inicio)

\* posicionarNavio: the return value and the board it leaves.
posicionarNavio(tab, navio) ==
    LET p == PrimeiraPassada(tab, navio, 0, navio.inicio, <<>>)
    IN  IF p.retorno = SUCESSO
        THEN [retorno |-> SUCESSO, tabuleiro |-> SegundaPassada(tab, p.coordenadas, 1)]
        ELSE [retorno |-> p.retorno, tabuleiro |-> tab]

(***************************************************************************)
(* Special abilities: 5x5 patterns                                         *)
(***************************************************************************)
CelulasHab == IndicesHab \X IndicesHab

\* The loop "matriz[padrao[i][0]][padrao[i][1]] = AREA_AFETADA" over padrao[i..].
RECURSIVE MarcarPadrao(_, _, _)
MarcarPadrao(matriz, padrao, i) ==
    IF i > Len(padrao)
    THEN matriz
    ELSE MarcarPadrao([matriz EXCEPT ![padrao[i][1], padrao[i][2]] = AREA_AFETADA],
                      padrao, i + 1)

padraoCone_SemCentro ==
    << <<0, 2>>,
       <<1, 1>>, <<1, 2>>, <<1, 3>>,
       <<2, 0>>, <<2, 1>>, <<2, 3>>, <<2, 4>> >>

padraoCone ==
    << <<0, 2>>,
       <<1, 1>>, <<1, 2>>, <<1, 3>>,
       <<2, 0>>, <<2, 1>>, <<2, 2>>, <<2, 3>>, <<2, 4>> >>

criarHabilidadeCone(matriz) ==
    MarcarPadrao(inicializarMatrizHabilidade(matriz), padraoCone, 1)

\* The loop "matriz[i][centro] = AREA_AFETADA" for i..TAMANHO_HABILIDADE-1.
RECURSIVE MarcarColuna(_, _, _)
MarcarColuna(matriz, centro, i) ==
    IF i >= TAMANHO_HABILIDADE
    THEN matriz
    ELSE MarcarColuna([matriz EXCEPT ![i, centro] = AREA_AFETADA], centro, i + 1)

\* The loop "matriz[centro][j] = AREA_AFETADA" for j..TAMANHO_HABILIDADE-1.
RECURSIVE MarcarLinha(_, _, _)
MarcarLinha(matriz, centro, j) ==
    IF j >= TAMANHO_HABILIDADE
    THEN matriz
    ELSE MarcarLinha([matriz EXCEPT ![centro, j] = AREA_AFETADA], centro, j + 1)

criarHabilidadeCruz_SoLinha(matriz) ==
    LET centro == TAMANHO_HABILIDADE \div 2
    IN  MarcarLinha(inicializarMatrizHabilidade(matriz), centro, 0)

criarHabilidadeCruz(matriz) ==
    LET centro == TAMANHO_HABILIDADE \div 2
    IN  MarcarLinha(MarcarColuna(inicializarMatrizHabilidade(matriz), centro, 0),
                    centro, 0)

padraoOctaedro ==
    << <<0, 2>>,
       <<1, 1>>, <<1, 2>>, <<1, 3>>,
       <<2, 2>> >>

criarHabilidadeOctaedro(matriz) ==
    MarcarPadrao(inicializarMatrizHabilidade(matriz), padraoOctaedro, 1)

Formas == {"CONE", "CRUZ", "OCTAEDRO"}

\* The criarHabilidade* function main() calls for each named ability.
criarHabilidade(forma, matriz) ==
    CASE forma = "CONE" -> criarHabilidadeCone(matriz)
      [] forma = "CRUZ" -> criarHabilidadeCruz(matriz)
      [] forma = "OCTAEDRO" -> criarHabilidadeOctaedro(matriz)

(***************************************************************************)
(* Combat                                                                  *)
(***************************************************************************)
\* Inner loop of verificarNaviosDestruidos: hit parts of one ship from part j.
RECURSIVE partesAtingidas(_, _, _, _)
partesAtingidas(tab, navio, j, coordAtual) ==
    IF j >= navio.tamanho
    THEN 0
    ELSE (IF /\ coordenadaValida(coordAtual.linha, coordAtual.coluna)
             /\ tab[coordAtual.linha, coordAtual.coluna] = POSICAO_ATINGIDA
          THEN 1 ELSE 0)
         + partesAtingidas(tab, navio, j + 1,
                           proximaCoordenada(coordAtual, navio.orientacao))

\* Mutant: a destroyed ship is counted but not flagged.
RECURSIVE verificarDesde_SemMarcar(_, _, _, _, _)
verificarDesde_SemMarcar(tab, nav, quantidadeNavios, st, i) ==
    IF i >= quantidadeNavios
    THEN [navios |-> nav, stats |-> st]
    ELSE IF nav[i].foiDestruido = 1
         THEN verificarDesde_SemMarcar(tab, nav, quantidadeNavios, st, i + 1)
         ELSE IF partesAtingidas(tab, nav[i], 0, nav[i].inicio) = nav[i].tamanho
              THEN verificarDesde_SemMarcar(tab, nav, quantidadeNavios,
                                            [st EXCEPT !.naviosDestruidos = @ + 1],
                                            i + 1)
              ELSE verificarDesde_SemMarcar(tab, nav, quantidadeNavios, st, i + 1)

\* Outer loop of verificarNaviosDestruidos from ship index i.
RECURSIVE verificarDesde(_, _, _, _, _)
verificarDesde(tab, nav, quantidadeNavios, st, i) ==
    IF i >= quantidadeNavios
    THEN [navios |-> nav, stats |-> st]
    ELSE IF nav[i].foiDestruido = 1
         THEN verificarDesde(tab, nav, quantidadeNavios, st, i + 1)
         ELSE IF partesAtingidas(tab, nav[i], 0, nav[i].inicio) = nav[i].tamanho
              THEN verificarDesde(tab,
                                  [nav EXCEPT ![i].foiDestruido = 1],
                                  quantidadeNavios,
                                  [st EXCEPT !.naviosDestruidos = @ + 1],
                                  i + 1)
              ELSE verificarDesde(tab, nav, quantidadeNavios, st, i + 1)

verificarNaviosDestruidos(tab, nav, quantidadeNavios, st) ==
    verificarDesde(tab, nav, quantidadeNavios, st, 0)

\* Mutant: a shot at an Empty cell leaves it Empty.
novoEstadoCelula_NavioIntacto(estado) ==
    CASE estado = POSICAO_VAZIA -> POSICAO_AGUA_ATINGIDA
      [] OTHER -> estado

novoEstadoCelula_SemAgua(estado) ==
    IF estado = POSICAO_NAVIO THEN POSICAO_ATINGIDA ELSE estado

\* Effect of one affected, in-bounds pattern cell on the board cell it covers.
novoEstadoCelula(estado) ==
    IF estado = POSICAO_NAVIO THEN POSICAO_ATINGIDA
    ELSE IF estado = POSICAO_VAZIA THEN POSICAO_AGUA_ATINGIDA
    ELSE estado

\* Mutant: tirosNesteTurno is counted only where the cell changes state.
RECURSIVE percorrerHabilidade_SemRepetidos(_, _, _, _, _)
percorrerHabilidade_SemRepetidos(acc, habilidade, centroLinha, centroColuna, n) ==
    IF n >= TAMANHO_HABILIDADE * TAMANHO_HABILIDADE
    THEN acc
    ELSE LET i == n \div TAMANHO_HABILIDADE
             j == n % TAMANHO_HABILIDADE
             deslocamento == TAMANHO_HABILIDADE \div 2
             linhaTab == centroLinha - deslocamento + i
             colunaTab == centroColuna - deslocamento + j
         IN  IF habilidade[i, j] # AREA_AFETADA
             THEN percorrerHabilidade_SemRepetidos(acc, habilidade, centroLinha,
                                                   centroColuna, n + 1)
             ELSE IF ~coordenadaValida(linhaTab, colunaTab)
             THEN percorrerHabilidade_SemRepetidos(acc, habilidade, centroLinha,
                                                   centroColuna, n + 1)
             ELSE LET antes == acc.tabuleiro[linhaTab, colunaTab]
                      prox == [tabuleiro |->
                                   [acc.tabuleiro EXCEPT ![linhaTab, colunaTab] =
                                        novoEstadoCelula(antes)],
                               tiros |-> acc.tiros +
                                   (IF antes \in {POSICAO_NAVIO, POSICAO_VAZIA}
                                    THEN 1 ELSE 0),
                               acertos |-> acc.acertos +
                                   (IF antes = POSICAO_NAVIO THEN 1 ELSE 0),
                               acessos |-> acc.acessos \cup {<<linhaTab, colunaTab>>}]
                  IN  percorrerHabilidade_SemRepetidos(prox, habilidade, centroLinha,
                                                       centroColuna, n + 1)

\* The two nested loops of aplicarHabilidadeNoTabuleiro, flattened: cell n of
\* the 5x5 matrix is (n \div 5, n % 5).  acc carries the board, the locals
\* tirosNesteTurno and acertosNesteTiro, and the board indices computed.
RECURSIVE percorrerHabilidade(_, _, _, _, _)
percorrerHabilidade(acc, habilidade, centroLinha, centroColuna, n) ==
    IF n >= TAMANHO_HABILIDADE * TAMANHO_HABILIDADE
    THEN acc
    ELSE LET i == n \div TAMANHO_HABILIDADE
             j == n % TAMANHO_HABILIDADE
             deslocamento == TAMANHO_HABILIDADE \div 2
             linhaTab == centroLinha - deslocamento + i
             colunaTab == centroColuna - deslocamento + j
         IN  IF habilidade[i, j] # AREA_AFETADA
             THEN percorrerHabilidade(acc, habilidade, centroLinha, centroColuna, n + 1)
             ELSE IF ~coordenadaValida(linhaTab, colunaTab)
             THEN percorrerHabilidade(acc, habilidade, centroLinha, centroColuna, n + 1)
             ELSE LET antes == acc.tabuleiro[linhaTab, colunaTab]
                      prox == [tabuleiro |->
                                   [acc.tabuleiro EXCEPT ![linhaTab, colunaTab] =
                                        novoEstadoCelula(antes)],
                               tiros |-> acc.tiros + 1,
                               acertos |-> acc.acertos +
                                   (IF antes = POSICAO_NAVIO THEN 1 ELSE 0),
                               acessos |-> acc.acessos \cup {<<linhaTab, colunaTab>>}]
                  IN  percorrerHabilidade(prox, habilidade, centroLinha, centroColuna,
                                          n + 1)

\* Mutant: erros grows by all the shots of the turn, hits included.
aplicarHabilidadeNoTabuleiro_ErrosSemDesconto(tab, habilidade, centroLinha, centroColuna, nav, quantidadeNavios, st) ==
    LET r == percorrerHabilidade(
                 [tabuleiro |-> tab, tiros |-> 0, acertos |-> 0, acessos |-> {}],
                 habilidade, centroLinha, centroColuna, 0)
        v == IF r.acertos > 0
             THEN verificarNaviosDestruidos(r.tabuleiro, nav, quantidadeNavios, st)
             ELSE [navios |-> nav, stats |-> st]
    IN  [tabuleiro |-> r.tabuleiro,
         navios |-> v.navios,
         stats |-> [v.stats EXCEPT !.totalTiros = @ + r.tiros,
                                   !.acertos = @ + r.acertos,
                                   !.erros = @ + r.tiros],
         tiros |-> r.tiros,
         acertos |-> r.acertos,
         acessos |-> r.acessos]

\* aplicarHabilidadeNoTabuleiro: the board, fleet and statistics it leaves, and
\* its locals tirosNesteTurno (tiros) and acertosNesteTiro (acertos).
aplicarHabilidadeNoTabuleiro(tab, habilidade, centroLinha, centroColuna, nav, quantidadeNavios, st) ==
    LET r == percorrerHabilidade(
                 [tabuleiro |-> tab, tiros |-> 0, acertos |-> 0, acessos |-> {}],
                 habilidade, centroLinha, centroColuna, 0)
        v == IF r.acertos > 0
             THEN verificarNaviosDestruidos(r.tabuleiro, nav, quantidadeNavios, st)
             ELSE [navios |-> nav, stats |-> st]
    IN  [tabuleiro |-> r.tabuleiro,
         navios |-> v.navios,
         stats |-> [v.stats EXCEPT !.totalTiros = @ + r.tiros,
                                   !.acertos = @ + r.acertos,
                                   !.erros = @ + (r.tiros - r.acertos)],
         tiros |-> r.tiros,
         acertos |-> r.acertos,
         acessos |-> r.acessos]

(***************************************************************************)
(* User input.  A token read by scanf("%s") is a sequence of characters;   *)
(* the empty sequence stands for a failed scanf (end of input).  Tokens    *)
(* are shorter than the 10-byte buffer entrada.                            *)
(***************************************************************************)
\* ASCII code of a character.
Codigo(ch) ==
    CASE ch = "A" -> 65 [] ch = "C" -> 67 [] ch = "D" -> 68 [] ch = "F" -> 70
      [] ch = "G" -> 71 [] ch = "H" -> 72 [] ch = "I" -> 73 [] ch = "J" -> 74
      [] ch = "K" -> 75 [] ch = "V" -> 86
      [] ch = "a" -> 97 [] ch = "f" -> 102 [] ch = "h" -> 104 [] ch = "j" -> 106
      [] ch = "v" -> 118 [] ch = "x" -> 120
      [] ch = "0" -> 48 [] ch = "1" -> 49 [] ch = "2" -> 50 [] ch = "5" -> 53 [] ch = "6" -> 54
      [] ch = "8" -> 56 [] ch = "9" -> 57
      [] ch = "+" -> 43 [] ch = "-" -> 45

letraParaColuna(letra) ==
    IF Codigo(letra) >= Codigo("A") /\ Codigo(letra) <= Codigo("J")
    THEN Codigo(letra) - Codigo("A")
    ELSE IF Codigo(letra) >= Codigo("a") /\ Codigo(letra) <= Codigo("j")
         THEN Codigo(letra) - Codigo("a")
         ELSE -1

EhDigito(ch) == Codigo(ch) >= Codigo("0") /\ Codigo(ch) <= Codigo("9")

\* Digits of s from position i on: the value accumulated and the position of
\* the first character that is not a digit (Len(s) + 1 at the terminator).
RECURSIVE LerDigitos(_, _, _)
LerDigitos(s, i, valor) ==
    IF i <= Len(s) /\ EhDigito(s[i])
    THEN LerDigitos(s, i + 1, valor * 10 + (Codigo(s[i]) - Codigo("0")))
    ELSE [valor |-> valor, fim |-> i]

\* strtol(&s[inicio], &endptr, 10): an optional sign, then digits.  With no
\* digit at all nothing is converted: the value is 0 and endptr is the start.
strtol(s, inicio) ==
    LET sinal == inicio <= Len(s) /\ s[inicio] \in {"+", "-"}
        d == LerDigitos(s, IF sinal THEN inicio + 1 ELSE inicio, 0)
        semDigitos == d.fim = (IF sinal THEN inicio + 1 ELSE inicio)
    IN  IF semDigitos
        THEN [valor |-> 0, fim |-> inicio]
        ELSE [valor |-> IF sinal /\ s[inicio] = "-" THEN 0 - d.valor ELSE d.valor,
              fim |-> d.fim]

\* lerCoordenada: ok (its return value) and the coordinate stored on success.
lerCoordenada(entrada) ==
    IF Len(entrada) = 0 THEN [ok |-> FALSE]
    ELSE IF Len(entrada) < 2 THEN [ok |-> FALSE]
    ELSE IF letraParaColuna(entrada[1]) = -1 THEN [ok |-> FALSE]
    ELSE LET n == strtol(entrada, 2)
         IN  IF n.fim <= Len(entrada) \/ n.valor < 0 \/ n.valor >= TAMANHO_TABULEIRO
             THEN [ok |-> FALSE]
             ELSE [ok |-> TRUE,
                   coord |-> Coord(n.valor, letraParaColuna(entrada[1]))]

lerCoordenadaAtaque(entrada) == lerCoordenada(entrada)

\* lerOrientacao on the character stored in its local orientacao: "H", "V" or
\* "D", or "0" for the return value 0.
lerOrientacao(ch) ==
    LET cod == IF Codigo(ch) >= Codigo("a") /\ Codigo(ch) <= Codigo("a") + 25
               THEN Codigo(ch) - Codigo("a") + Codigo("A")
               ELSE Codigo(ch)
    IN  IF cod = Codigo("H") THEN "H"
        ELSE IF cod = Codigo("V") THEN "V"
        ELSE IF cod = Codigo("D") THEN "D"
        ELSE "0"

\* What scanf(" %c", &orientacao) leaves in orientacao: the character typed, or,
\* at end of input ("EOF"), whatever the uninitialised local held.
CaracteresIndeterminados == {"H", "V", "D", "x", "0"}
orientacaoLida(entrada) ==
    IF entrada = "EOF" THEN CaracteresIndeterminados ELSE {entrada}

(***************************************************************************)
(* Inputs of main()                                                        *)
(***************************************************************************)
\* Coordinate tokens typed by the user: A0, F5, G9, F6 (also in lower case or
\* with a sign), and tokens lerCoordenada rejects.
EntradasCoordenada ==
    { <<"A", "0">>, <<"F", "5">>, <<"G", "9">>, <<"F", "6">>,
      <<"a", "+", "0">>, <<"f", "0", "5">>,
      <<>>, <<"A">>, <<"K", "1">>, <<"A", "1", "0">>, <<"C", "-", "1">>,
      <<"C", "2", "x">>, <<"J", "+">> }

EntradasOrientacao == {"H", "V", "D", "h", "v", "x", "EOF"}

\* What lerCoordenada stores for the tokens it accepts, and what lerOrientacao
\* returns for the characters read.
CoordenadasLidas ==
    {lerCoordenada(e).coord : e \in {x \in EntradasCoordenada : lerCoordenada(x).ok}}
OrientacoesLidas ==
    UNION {{lerOrientacao(ch) : ch \in orientacaoLida(eo)} : eo \in EntradasOrientacao}

\* Uninitialised stack contents of a 5x5 matrix.
Lixo(a, b) == [p \in CelulasHab |-> IF (p[1] + p[2]) % 2 = 0 THEN a ELSE b]
ValoresLixo == {0, 1, -7}
LixoMain == {Lixo(1, -7)}

\* navios[] before posicionarNaviosManualmente fills it; main() never reads an
\* entry before writing it.
NavioNaoEscrito ==
    [inicio |-> Coord(0, 0), tamanho |-> 0, orientacao |-> "0", id |-> 0,
     foiDestruido |-> 0]

tamanhosNavios == <<4, 3, 3, 2>>

ataquesMain_CruzPrimeiro == <<"CRUZ", "CONE", "OCTAEDRO">>

\* The order of the three attacks of main().
ataquesMain == <<"CONE", "CRUZ", "OCTAEDRO">>

\* ataques[k] before lerCoordenadaAtaque fills it; lerCoordenada writes *coord
\* only when it returns 1, and main() reads ataques[k] only in that case.
CoordenadaNaoEscrita == [linha |-> -1, coluna |-> -1]

(***************************************************************************)
(* Spec: main()                                                            *)
(***************************************************************************)
Init ==
    /\ pc = "posicionar"
    /\ tabuleiro = inicializarTabuleiro
    /\ stats = inicializarEstatisticas
    /\ navios = [n \in 0 .. (MAX_NAVIOS - 1) |-> NavioNaoEscrito]
    /\ iNavio = 0
    /\ tentativas = 0
    /\ iAtaque = 0
    /\ ataques = [k \in 0 .. (Len(ataquesMain) - 1) |-> CoordenadaNaoEscrita]
    /\ habilidades \in [Formas -> LixoMain]
    /\ chamada = [op |-> "inicio"]
    /\ nOps = 0

FimDaTentativa_SemReiniciar(posicionado) ==
    IF posicionado
    THEN /\ iNavio' = iNavio + 1
         /\ tentativas' = tentativas
         /\ pc' = IF iNavio + 1 < MAX_NAVIOS THEN "posicionar" ELSE "habilidades"
    ELSE /\ iNavio' = iNavio
         /\ tentativas' = tentativas + 1
         /\ pc' = IF tentativas + 1 < maxTentativas THEN "posicionar" ELSE "abortado"

\* End of one iteration of the while loop of posicionarNaviosManualmente, and
\* what follows it: the next iteration, the next ship, the return 0 (main()
\* returns 1) or the return 1.
FimDaTentativa(posicionado) ==
    IF posicionado
    THEN /\ iNavio' = iNavio + 1
         /\ tentativas' = 0
         /\ pc' = IF iNavio + 1 < MAX_NAVIOS THEN "posicionar" ELSE "habilidades"
    ELSE /\ iNavio' = iNavio
         /\ tentativas' = tentativas + 1
         /\ pc' = IF tentativas + 1 < maxTentativas THEN "posicionar" ELSE "abortado"

\* An iteration in which lerCoordenada returns 0.
TentativaCoordenadaInvalida ==
    /\ pc = "posicionar"
    /\ \E entrada \in EntradasCoordenada : ~lerCoordenada(entrada).ok
    /\ chamada' = [op |-> "lerCoordenada", ok |-> FALSE]
    /\ FimDaTentativa(FALSE)
    /\ UNCHANGED <<tabuleiro, navios, stats, iAtaque, ataques, habilidades, nOps>>

\* An iteration in which lerOrientacao returns 0.
TentativaOrientacaoInvalida ==
    /\ pc = "posicionar"
    /\ CoordenadasLidas # {}
    /\ "0" \in OrientacoesLidas
    /\ chamada' = [op |-> "lerOrientacao", retorno |-> "0"]
    /\ FimDaTentativa(FALSE)
    /\ UNCHANGED <<tabuleiro, navios, stats, iAtaque, ataques, habilidades, nOps>>

\* An iteration that reaches posicionarNavio.
TentativaPosicionar ==
    /\ pc = "posicionar"
    /\ \E inicio \in CoordenadasLidas, orientacao \in OrientacoesLidas \ {"0"} :
        LET navio == [inicio |-> inicio,
                      tamanho |-> tamanhosNavios[iNavio + 1],
                      orientacao |-> orientacao,
                      id |-> iNavio + 1,
                      foiDestruido |-> 0]
            r == posicionarNavio(tabuleiro, navio)
        IN  /\ navios' = [navios EXCEPT ![iNavio] = navio]
            /\ tabuleiro' = r.tabuleiro
            /\ chamada' = [op |-> "posicionarNavio", navio |-> navio,
                           retorno |-> r.retorno]
            /\ FimDaTentativa(r.retorno = SUCESSO)
    /\ UNCHANGED <<stats, iAtaque, ataques, habilidades, nOps>>

\* main() creates the three patterns once the fleet is placed.
CriarHabilidades ==
    /\ pc = "habilidades"
    /\ habilidades' = [f \in Formas |-> criarHabilidade(f, habilidades[f])]
    /\ pc' = "combate"
    /\ chamada' = [op |-> "criarHabilidades"]
    /\ UNCHANGED <<tabuleiro, navios, stats, iNavio, tentativas, iAtaque, ataques, nOps>>

ProximoAtaque ==
    /\ iAtaque' = iAtaque + 1
    /\ pc' = IF iAtaque + 1 < Len(ataquesMain) THEN "combate" ELSE "fim"

\* lerCoordenadaAtaque returns 1 and the ability is applied.
AtaqueAplicado ==
    /\ pc = "combate"
    /\ \E centro \in CoordenadasLidas :
        LET forma == ataquesMain[iAtaque + 1]
            r == aplicarHabilidadeNoTabuleiro(tabuleiro, habilidades[forma],
                     centro.linha, centro.coluna, navios, MAX_NAVIOS, stats)
        IN  /\ ataques' = [ataques EXCEPT ![iAtaque] = centro]
            /\ tabuleiro' = r.tabuleiro
            /\ navios' = r.navios
            /\ stats' = r.stats
            /\ chamada' = [op |-> "aplicarHabilidade", forma |-> forma,
                           centro |-> centro, tiros |-> r.tiros,
                           acertos |-> r.acertos, acessos |-> r.acessos]
    /\ ProximoAtaque
    /\ UNCHANGED <<iNavio, tentativas, habilidades, nOps>>

\* lerCoordenadaAtaque returns 0 and the attack is skipped.
AtaqueIgnorado ==
    /\ pc = "combate"
    /\ \E entrada \in EntradasCoordenada : ~lerCoordenadaAtaque(entrada).ok
    /\ chamada' = [op |-> "lerCoordenadaAtaque", ok |-> FALSE]
    /\ ProximoAtaque
    /\ UNCHANGED <<tabuleiro, navios, stats, iNavio, tentativas, ataques, habilidades, nOps>>

Next ==
    \/ TentativaCoordenadaInvalida
    \/ TentativaOrientacaoInvalida
    \/ TentativaPosicionar
    \/ CriarHabilidades
    \/ AtaqueAplicado
    \/ AtaqueIgnorado

Spec == Init /\ [][Next]_vars

(***************************************************************************)
(* SpecNucleo: a driver that calls posicionarNavio and                     *)
(* aplicarHabilidadeNoTabuleiro in any order, at most MaxOps times.  It    *)
(* keeps its fleet as posicionarNaviosManualmente does: navios[iNavio] is  *)
(* written before each call, and iNavio counts the ships placed, which is  *)
(* the quantidadeNavios it passes to an attack.                            *)
(***************************************************************************)
TamanhosNucleo == {2, 3, 4}
OrientacoesNucleo == {"H", "V", "D"}
\* Ships the driver tries: every length and orientation from (0,0) and (0,2),
\* and the length-2 ship from the corner (9,9).
NaviosNucleo ==
    ({Coord(0, 0), Coord(0, 2)} \X TamanhosNucleo \X OrientacoesNucleo)
    \cup ({Coord(9, 9)} \X {2} \X OrientacoesNucleo)
\* Centres the driver attacks: two corners and an interior cell.
CentrosNucleo == {Coord(0, 0), Coord(2, 2), Coord(9, 9)}

InitNucleo ==
    /\ pc = "nucleo"
    /\ tabuleiro = inicializarTabuleiro
    /\ stats = inicializarEstatisticas
    /\ navios = [n \in 0 .. (MAX_NAVIOS - 1) |-> NavioNaoEscrito]
    /\ iNavio = 0
    /\ tentativas = 0
    /\ iAtaque = 0
    /\ ataques = [k \in 0 .. (Len(ataquesMain) - 1) |-> CoordenadaNaoEscrita]
    /\ habilidades = [f \in Formas |-> criarHabilidade(f, Lixo(1, -7))]
    /\ chamada = [op |-> "inicio"]
    /\ nOps = 0

NucleoPosicionar ==
    /\ pc = "nucleo"
    /\ nOps < MaxOps
    /\ iNavio < MAX_NAVIOS
    /\ \E dados \in NaviosNucleo :
        LET navio == [inicio |-> dados[1], tamanho |-> dados[2],
                      orientacao |-> dados[3], id |-> iNavio + 1,
                      foiDestruido |-> 0]
            r == posicionarNavio(tabuleiro, navio)
        IN  /\ navios' = [navios EXCEPT ![iNavio] = navio]
            /\ tabuleiro' = r.tabuleiro
            /\ iNavio' = IF r.retorno = SUCESSO THEN iNavio + 1 ELSE iNavio
            /\ chamada' = [op |-> "posicionarNavio", navio |-> navio,
                           retorno |-> r.retorno]
    /\ nOps' = nOps + 1
    /\ UNCHANGED <<pc, stats, tentativas, iAtaque, ataques, habilidades>>

NucleoAplicar ==
    /\ pc = "nucleo"
    /\ nOps < MaxOps
    /\ \E forma \in Formas, centro \in CentrosNucleo :
        LET r == aplicarHabilidadeNoTabuleiro(tabuleiro, habilidades[forma],
                     centro.linha, centro.coluna, navios, iNavio, stats)
        IN  /\ tabuleiro' = r.tabuleiro
            /\ navios' = r.navios
            /\ stats' = r.stats
            /\ chamada' = [op |-> "aplicarHabilidade", forma |-> forma,
                           centro |-> centro, tiros |-> r.tiros,
                           acertos |-> r.acertos, acessos |-> r.acessos]
    /\ nOps' = nOps + 1
    /\ UNCHANGED <<pc, iNavio, tentativas, iAtaque, ataques, habilidades>>

NextNucleo ==
    \/ NucleoPosicionar
    \/ NucleoAplicar

SpecNucleo == InitNucleo /\ [][NextNucleo]_vars

(***************************************************************************)
(* SpecPadrao: a driver that calls criarHabilidadeCone/Cruz/Octaedro on    *)
(* three buffers whose previous content is arbitrary.                      *)
(***************************************************************************)
InitPadrao ==
    /\ pc = "padrao"
    /\ tabuleiro = inicializarTabuleiro
    /\ stats = inicializarEstatisticas
    /\ navios = [n \in 0 .. (MAX_NAVIOS - 1) |-> NavioNaoEscrito]
    /\ iNavio = 0
    /\ tentativas = 0
    /\ iAtaque = 0
    /\ ataques = [k \in 0 .. (Len(ataquesMain) - 1) |-> CoordenadaNaoEscrita]
    /\ habilidades \in [Formas -> {Lixo(a, b) : a \in ValoresLixo, b \in ValoresLixo}]
    /\ chamada = [op |-> "inicio"]
    /\ nOps = 0

PadraoCriar ==
    /\ pc = "padrao"
    /\ \E forma \in Formas, alvo \in Formas :
        /\ habilidades' = [habilidades EXCEPT ![alvo] = criarHabilidade(forma, @)]
        /\ chamada' = [op |-> "criarHabilidade", forma |-> forma, alvo |-> alvo]
    /\ UNCHANGED <<pc, tabuleiro, navios, stats, iNavio, tentativas, iAtaque, ataques, nOps>>

NextPadrao == PadraoCriar

SpecPadrao == InitPadrao /\ [][NextPadrao]_vars

(***************************************************************************)
(* SpecAtaque: a driver that calls inicializarTabuleiro,                   *)
(* inicializarEstatisticas and the three criarHabilidade* functions, then  *)
(* aplicarHabilidadeNoTabuleiro at most MaxAtaques times, with any pattern *)
(* centred at any cell of the board and a fleet of no ships.               *)
(***************************************************************************)
CentrosAtaque == {Coord(l, c) : l \in Linhas, c \in Linhas}

InitAtaque ==
    /\ pc = "ataque"
    /\ tabuleiro = inicializarTabuleiro
    /\ stats = inicializarEstatisticas
    /\ navios = [n \in 0 .. (MAX_NAVIOS - 1) |-> NavioNaoEscrito]
    /\ iNavio = 0
    /\ tentativas = 0
    /\ iAtaque = 0
    /\ ataques = [k \in 0 .. (Len(ataquesMain) - 1) |-> CoordenadaNaoEscrita]
    /\ habilidades = [f \in Formas |-> criarHabilidade(f, Lixo(1, -7))]
    /\ chamada = [op |-> "inicio"]
    /\ nOps = 0

AtaqueLivre ==
    /\ pc = "ataque"
    /\ nOps < MaxAtaques
    /\ \E forma \in Formas, centro \in CentrosAtaque :
        LET r == aplicarHabilidadeNoTabuleiro(tabuleiro, habilidades[forma],
                     centro.linha, centro.coluna, navios, iNavio, stats)
        IN  /\ tabuleiro' = r.tabuleiro
            /\ navios' = r.navios
            /\ stats' = r.stats
            /\ chamada' = [op |-> "aplicarHabilidade", forma |-> forma,
                           centro |-> centro, tiros |-> r.tiros,
                           acertos |-> r.acertos, acessos |-> r.acessos]
    /\ nOps' = nOps + 1
    /\ UNCHANGED <<pc, iNavio, tentativas, iAtaque, ataques, habilidades>>

NextAtaque == AtaqueLivre

SpecAtaque == InitAtaque /\ [][NextAtaque]_vars

(***************************************************************************)
(* Vocabulary of the properties                                            *)
(***************************************************************************)
\* The k-th (k = 1..tamanho) coordinate of a ship: k-1 steps from its start,
\* H: column+1, V: row+1, D: row+1 and column+1.
Derivada(navio, k) ==
    <<navio.inicio.linha + (IF navio.orientacao \in {"V", "D"} THEN k - 1 ELSE 0),
      navio.inicio.coluna + (IF navio.orientacao \in {"H", "D"} THEN k - 1 ELSE 0)>>

Derivadas(navio) == {Derivada(navio, k) : k \in 1 .. navio.tamanho}

\* The derived coordinates that fail validation on board tab.
Falhas(tab, navio) ==
    {k \in 1 .. navio.tamanho :
        Derivada(navio, k) \notin Celulas \/ tab[Derivada(navio, k)] # POSICAO_VAZIA}

Minimo(S) == CHOOSE x \in S : \A y \in S : x <= y

PassoPosicionar == chamada'.op = "posicionarNavio"
PassoAplicar == chamada'.op = "aplicarHabilidade"

\* Board cells covered by an in-bounds Affected cell of pattern hab centred at centro.
Cobertas(hab, centro) ==
    {<<centro.linha - 2 + q[1], centro.coluna - 2 + q[2]>> :
        q \in {x \in CelulasHab : hab[x] = AREA_AFETADA}} \cap Celulas

\* Number of Affected cells of hab whose absolute coordinate is inside the grid.
AfetadasNoTabuleiro(hab, centro) ==
    Cardinality({q \in CelulasHab :
        /\ hab[q] = AREA_AFETADA
        /\ (centro.linha - 2 + q[1]) \in Linhas
        /\ (centro.coluna - 2 + q[2]) \in Linhas})

CelulasEm(tab, estado) == {p \in Celulas : tab[p] = estado}

(***************************************************************************)
(* C1  Placement is all-or-nothing: whenever some derived coordinate of    *)
(* the ship is out of bounds or not Empty, posicionarNavio returns         *)
(* ERRO_FORA_LIMITES or ERRO_POSICAO_OCUPADA, and whenever it returns an   *)
(* error every one of the 100 cells keeps its state.                       *)
(***************************************************************************)
C1_TudoOuNada ==
    [][PassoPosicionar =>
          /\ (Falhas(tabuleiro, chamada'.navio) # {} =>
                 chamada'.retorno \in {ERRO_FORA_LIMITES, ERRO_POSICAO_OCUPADA})
          /\ (chamada'.retorno # SUCESSO =>
                 \A p \in Celulas : tabuleiro'[p] = tabuleiro[p])]_vars

\* A failed placement whose first cell was free: a later cell made it fail.
C1_Testemunha ==
    /\ chamada.op = "posicionarNavio"
    /\ chamada.retorno = ERRO_POSICAO_OCUPADA
    /\ tabuleiro[chamada.navio.inicio.linha, chamada.navio.inicio.coluna] = POSICAO_VAZIA
    /\ CelulasEm(tabuleiro, POSICAO_NAVIO) # {}

(***************************************************************************)
(* C2  Placement is exact and minimal: when posicionarNavio returns        *)
(* SUCESSO, the derived coordinates are `tamanho` distinct cells that were *)
(* Empty before and are Ship after, and every other cell is unchanged.     *)
(***************************************************************************)
C2_ExatoEMinimo ==
    [][(PassoPosicionar /\ chamada'.retorno = SUCESSO) =>
          LET d == Derivadas(chamada'.navio)
          IN  /\ d \subseteq Celulas
              /\ Cardinality(d) = chamada'.navio.tamanho
              /\ \A p \in d : tabuleiro[p] = POSICAO_VAZIA /\ tabuleiro'[p] = POSICAO_NAVIO
              /\ \A p \in Celulas \ d : tabuleiro'[p] = tabuleiro[p]]_vars

\* A diagonal ship was placed on a board that already held a ship.
C2_Testemunha ==
    /\ chamada.op = "posicionarNavio"
    /\ chamada.retorno = SUCESSO
    /\ chamada.navio.orientacao = "D"
    /\ Cardinality(CelulasEm(tabuleiro, POSICAO_NAVIO)) > chamada.navio.tamanho

(***************************************************************************)
(* C3  Result classification: SUCESSO iff every derived coordinate is in   *)
(* bounds and Empty; otherwise the first failing derived coordinate        *)
(* decides: ERRO_FORA_LIMITES if it is outside the grid,                   *)
(* ERRO_POSICAO_OCUPADA if it is inside and not Empty.  A length-2         *)
(* horizontal ship at (9,9) fails with ERRO_FORA_LIMITES; once a length-4  *)
(* horizontal ship is placed at (0,0), a length-2 horizontal ship at (0,2) *)
(* fails with ERRO_POSICAO_OCUPADA.                                        *)
(***************************************************************************)
NavioH(l, c, t) == [inicio |-> Coord(l, c), tamanho |-> t, orientacao |-> "H"]

MesmoNavio(navio, forma) ==
    /\ navio.inicio = forma.inicio
    /\ navio.tamanho = forma.tamanho
    /\ navio.orientacao = forma.orientacao

\* The fleet holds a successfully placed length-4 horizontal ship at (0,0).
EncouracadoEmA0 ==
    \E n \in 0 .. (iNavio - 1) : MesmoNavio(navios[n], NavioH(0, 0, 4))

\* The general rule and the second scenario.
ClassificacaoGeral ==
    LET f == Falhas(tabuleiro, chamada'.navio)
    IN  /\ (chamada'.retorno = SUCESSO) <=> (f = {})
        /\ f # {} =>
              chamada'.retorno =
                  (IF Derivada(chamada'.navio, Minimo(f)) \notin Celulas
                   THEN ERRO_FORA_LIMITES ELSE ERRO_POSICAO_OCUPADA)
        /\ (EncouracadoEmA0 /\ MesmoNavio(chamada'.navio, NavioH(0, 2, 2))) =>
              chamada'.retorno = ERRO_POSICAO_OCUPADA

\* C3 as amended: the ship at (9,9) fails with ERRO_FORA_LIMITES when cell
\* (9,9) is Empty.
C3_Classificacao ==
    [][PassoPosicionar =>
          /\ ClassificacaoGeral
          /\ (MesmoNavio(chamada'.navio, NavioH(9, 9, 2))
                  /\ tabuleiro[9, 9] = POSICAO_VAZIA) =>
                chamada'.retorno = ERRO_FORA_LIMITES]_vars

\* C3 as stated: the ship at (9,9) fails with ERRO_FORA_LIMITES on any board.
C3_Original ==
    [][PassoPosicionar =>
          /\ ClassificacaoGeral
          /\ MesmoNavio(chamada'.navio, NavioH(9, 9, 2)) =>
                chamada'.retorno = ERRO_FORA_LIMITES]_vars

\* The second scenario: the ship at (0,2) was refused after the one at (0,0).
C3_Testemunha ==
    /\ chamada.op = "posicionarNavio"
    /\ MesmoNavio(chamada.navio, NavioH(0, 2, 2))
    /\ chamada.retorno = ERRO_POSICAO_OCUPADA
    /\ EncouracadoEmA0

(***************************************************************************)
(* C4  Attack effect on the grid: after aplicarHabilidadeNoTabuleiro each  *)
(* cell covered by an in-bounds Affected pattern cell is Hit if it was     *)
(* Ship, HitWater if it was Empty, and unchanged if it was already Hit or  *)
(* HitWater; every cell not covered is unchanged.                          *)
(***************************************************************************)
C4_EfeitoDoAtaque ==
    [][PassoAplicar =>
          LET cob == Cobertas(habilidades[chamada'.forma], chamada'.centro)
          IN  /\ \A p \in cob :
                    tabuleiro'[p] =
                        (CASE tabuleiro[p] = POSICAO_NAVIO -> POSICAO_ATINGIDA
                           [] tabuleiro[p] = POSICAO_VAZIA -> POSICAO_AGUA_ATINGIDA
                           [] OTHER -> tabuleiro[p])
              /\ \A p \in Celulas \ cob : tabuleiro'[p] = tabuleiro[p]]_vars

\* An attack near the edge that hit a ship and water and left a ship cell
\* outside its area untouched.
C4_Testemunha ==
    /\ chamada.op = "aplicarHabilidade"
    /\ chamada.acertos > 0
    /\ chamada.tiros > chamada.acertos
    /\ chamada.tiros < 9
    /\ CelulasEm(tabuleiro, POSICAO_NAVIO) # {}
    /\ CelulasEm(tabuleiro, POSICAO_AGUA_ATINGIDA) # {}

(***************************************************************************)
(* C5  Cell-state transitions: a cell only ever changes Empty->Ship (by a  *)
(* placement), Ship->Hit or Empty->HitWater (by an attack); a Hit or       *)
(* HitWater cell keeps its state, and a placement over one fails and does  *)
(* not overwrite it.                                                       *)
(***************************************************************************)
C5_Transicoes ==
    [][/\ \A p \in Celulas :
             \/ tabuleiro'[p] = tabuleiro[p]
             \/ /\ tabuleiro[p] = POSICAO_VAZIA
                /\ tabuleiro'[p] = POSICAO_NAVIO
                /\ PassoPosicionar
             \/ /\ tabuleiro[p] = POSICAO_NAVIO
                /\ tabuleiro'[p] = POSICAO_ATINGIDA
                /\ PassoAplicar
             \/ /\ tabuleiro[p] = POSICAO_VAZIA
                /\ tabuleiro'[p] = POSICAO_AGUA_ATINGIDA
                /\ PassoAplicar
       /\ (/\ PassoPosicionar
           /\ \E p \in Derivadas(chamada'.navio) \cap Celulas :
                 tabuleiro[p] \in {POSICAO_ATINGIDA, POSICAO_AGUA_ATINGIDA})
          => /\ chamada'.retorno # SUCESSO
             /\ tabuleiro' = tabuleiro]_vars

\* A placement was refused at a later cell of the ship that had been attacked,
\* its first cell being free.
C5_Testemunha ==
    /\ chamada.op = "posicionarNavio"
    /\ chamada.retorno = ERRO_POSICAO_OCUPADA
    /\ tabuleiro[Derivada(chamada.navio, 1)] = POSICAO_VAZIA
    /\ \E p \in Derivadas(chamada.navio) \cap Celulas :
          tabuleiro[p] \in {POSICAO_ATINGIDA, POSICAO_AGUA_ATINGIDA}
    /\ \A p \in Derivadas(chamada.navio) \cap Celulas : tabuleiro[p] # POSICAO_NAVIO

(***************************************************************************)
(* C7  Re-hit counting.  For one attack let S, E and R be the covered      *)
(* in-bounds cells that were Ship, Empty, and already Hit or HitWater.     *)
(* As amended: the cells of R keep their state, each adds 1 to the shots   *)
(* attempted and to stats.totalTiros, nothing to stats.acertos, and 1 to   *)
(* stats.erros (erros grows by shots - hits = |E| + |R|).                  *)
(***************************************************************************)
CobertasDoPasso == Cobertas(habilidades[chamada'.forma], chamada'.centro)
JaAtingidas(cob) ==
    {p \in cob : tabuleiro[p] \in {POSICAO_ATINGIDA, POSICAO_AGUA_ATINGIDA}}
ComNavio(cob) == {p \in cob : tabuleiro[p] = POSICAO_NAVIO}
Vazias(cob) == {p \in cob : tabuleiro[p] = POSICAO_VAZIA}

\* What C7 says apart from the misses.
RepetidosSemErros(cob) ==
    /\ \A p \in JaAtingidas(cob) : tabuleiro'[p] = tabuleiro[p]
    /\ chamada'.tiros = Cardinality(cob)
    /\ stats'.totalTiros = stats.totalTiros + Cardinality(cob)
    /\ chamada'.acertos = Cardinality(ComNavio(cob))
    /\ stats'.acertos = stats.acertos + Cardinality(ComNavio(cob))

C7_Repetidos ==
    [][PassoAplicar =>
          /\ RepetidosSemErros(CobertasDoPasso)
          /\ stats'.erros = stats.erros + Cardinality(Vazias(CobertasDoPasso))
                                        + Cardinality(JaAtingidas(CobertasDoPasso))]_vars

\* C7 as stated: a cell already Hit or HitWater adds nothing to the misses.
C7_Original ==
    [][PassoAplicar =>
          /\ RepetidosSemErros(CobertasDoPasso)
          /\ stats'.erros = stats.erros + Cardinality(Vazias(CobertasDoPasso))]_vars

\* The second of two attacks covered a cell the first had already attacked.
C7_Testemunha ==
    /\ chamada.op = "aplicarHabilidade"
    /\ nOps = 2
    /\ stats.totalTiros > chamada.tiros
    /\ stats.erros > Cardinality(CelulasEm(tabuleiro, POSICAO_AGUA_ATINGIDA))

(***************************************************************************)
(* C9  Out-of-bounds pattern cells: an attack reads and writes only cells  *)
(* of rows 0..9 and columns 0..9; its shots attempted are exactly the      *)
(* Affected pattern cells whose absolute coordinate is inside the grid,    *)
(* and the statistics grow by that number of shots: Affected cells outside *)
(* the grid count as no shot, hit or miss.                                 *)
(***************************************************************************)
C9_ForaDosLimites ==
    [][PassoAplicar =>
          LET n == AfetadasNoTabuleiro(habilidades[chamada'.forma], chamada'.centro)
          IN  /\ chamada'.acessos \subseteq Celulas
              /\ chamada'.acessos = CobertasDoPasso
              /\ chamada'.tiros = n
              /\ stats'.totalTiros = stats.totalTiros + n
              /\ (stats'.acertos - stats.acertos) + (stats'.erros - stats.erros) = n
              /\ stats'.acertos >= stats.acertos
              /\ stats'.erros >= stats.erros]_vars

\* The cross at the corner (9,9): 4 of its 9 Affected cells are outside.
C9_Testemunha ==
    /\ chamada.op = "aplicarHabilidade"
    /\ chamada.forma = "CRUZ"
    /\ chamada.centro = Coord(9, 9)
    /\ chamada.tiros = 5
    /\ stats.totalTiros = 5

(***************************************************************************)
(* C6  Sunk detection, in main() once the four ships are placed: a ship is *)
(* flagged destroyed iff all its derived coordinates are Hit; the flag     *)
(* never reverts; stats.naviosDestruidos equals the number of flagged      *)
(* ships and grows, in each attack, by the number of ships whose last cell *)
(* became Hit in it; verificarNaviosDestruidos run again changes nothing.  *)
(***************************************************************************)
IndicesNavios == 0 .. (MAX_NAVIOS - 1)

FrotaPosicionada == pc \in {"habilidades", "combate", "fim"}

TodasAtingidas(tab, navio) ==
    \A p \in Derivadas(navio) : p \in Celulas /\ tab[p] = POSICAO_ATINGIDA

Marcados == {n \in IndicesNavios : navios[n].foiDestruido = 1}

DeteccaoCoerente ==
    FrotaPosicionada =>
        /\ \A n \in IndicesNavios :
              /\ navios[n].foiDestruido \in {0, 1}
              /\ (navios[n].foiDestruido = 1) <=> TodasAtingidas(tabuleiro, navios[n])
        /\ stats.naviosDestruidos = Cardinality(Marcados)
        /\ verificarNaviosDestruidos(tabuleiro, navios, MAX_NAVIOS, stats)
               = [navios |-> navios, stats |-> stats]

C6_NaviosDestruidos ==
    [][/\ DeteccaoCoerente'
       /\ FrotaPosicionada =>
             /\ \A n \in IndicesNavios :
                   /\ navios[n].foiDestruido = 1 => navios'[n].foiDestruido = 1
                   /\ navios'[n].inicio = navios[n].inicio
                   /\ navios'[n].tamanho = navios[n].tamanho
                   /\ navios'[n].orientacao = navios[n].orientacao
             /\ stats'.naviosDestruidos = stats.naviosDestruidos +
                   Cardinality({n \in IndicesNavios :
                       /\ TodasAtingidas(tabuleiro', navios[n])
                       /\ ~TodasAtingidas(tabuleiro, navios[n])})]_vars

\* After an attack one ship is destroyed, another is hit but not destroyed, and
\* a third is intact.
C6_Testemunha ==
    /\ FrotaPosicionada
    /\ chamada.op = "aplicarHabilidade"
    /\ stats.naviosDestruidos >= 1
    /\ \E n \in IndicesNavios :
          /\ navios[n].foiDestruido = 0
          /\ \E p \in Derivadas(navios[n]) : tabuleiro[p] = POSICAO_ATINGIDA
    /\ \E n \in IndicesNavios :
          \A p \in Derivadas(navios[n]) : tabuleiro[p] = POSICAO_NAVIO

(***************************************************************************)
(* C8  Statistics accumulation in main(): an attack adds its shots         *)
(* attempted to totalTiros, its Ship->Hit transitions to acertos and       *)
(* (shots - hits) to erros; totalTiros = acertos + erros always; the four  *)
(* counters are non-negative and never decrease; a placement attempt,      *)
(* successful or failed, leaves all four unchanged.                        *)
(***************************************************************************)
EstatisticasCoerentes ==
    /\ stats.totalTiros = stats.acertos + stats.erros
    /\ stats.naviosDestruidos >= 0
    /\ stats.totalTiros >= 0
    /\ stats.acertos >= 0
    /\ stats.erros >= 0

NovosAcertos ==
    Cardinality({p \in Celulas :
        tabuleiro[p] = POSICAO_NAVIO /\ tabuleiro'[p] = POSICAO_ATINGIDA})

C8_Estatisticas ==
    [][/\ EstatisticasCoerentes'
       /\ stats'.naviosDestruidos >= stats.naviosDestruidos
       /\ stats'.totalTiros >= stats.totalTiros
       /\ stats'.acertos >= stats.acertos
       /\ stats'.erros >= stats.erros
       /\ PassoAplicar =>
             /\ stats'.totalTiros = stats.totalTiros + chamada'.tiros
             /\ stats'.acertos = stats.acertos + NovosAcertos
             /\ stats'.erros = stats.erros + (chamada'.tiros - NovosAcertos)
       /\ ~PassoAplicar => stats' = stats]_vars

\* The end of a session whose attacks hit ships and water.
C8_Testemunha ==
    /\ pc = "fim"
    /\ chamada.op = "aplicarHabilidade"
    /\ stats.acertos > 0
    /\ stats.erros > 0
    /\ stats.totalTiros > chamada.tiros

(***************************************************************************)
(* C10  Pattern generation: each criarHabilidade* leaves a 5x5 mask that   *)
(* depends only on the shape, whatever the buffer held before: Cone =      *)
(* {(0,2),(1,1),(1,2),(1,3),(2,0),(2,1),(2,2),(2,3),(2,4)}, Cross = local  *)
(* row 2 plus local column 2, Diamond = {(0,2),(1,1),(1,2),(1,3),(2,2)};   *)
(* 9, 9 and 5 Affected cells.                                              *)
(***************************************************************************)
AfetadasEsperadas(forma) ==
    CASE forma = "CONE" ->
            {<<0, 2>>, <<1, 1>>, <<1, 2>>, <<1, 3>>,
             <<2, 0>>, <<2, 1>>, <<2, 2>>, <<2, 3>>, <<2, 4>>}
      [] forma = "CRUZ" -> {q \in CelulasHab : q[1] = 2 \/ q[2] = 2}
      [] forma = "OCTAEDRO" -> {<<0, 2>>, <<1, 1>>, <<1, 2>>, <<1, 3>>, <<2, 2>>}

TotalEsperado(forma) ==
    CASE forma = "CONE" -> 9 [] forma = "CRUZ" -> 9 [] forma = "OCTAEDRO" -> 5

C10_Padroes ==
    chamada.op = "criarHabilidade" =>
        LET matriz == habilidades[chamada.alvo]
        IN  /\ DOMAIN matriz = CelulasHab
            /\ \A q \in CelulasHab :
                  matriz[q] = (IF q \in AfetadasEsperadas(chamada.forma)
                               THEN AREA_AFETADA ELSE AREA_NAO_AFETADA)
            /\ Cardinality({q \in CelulasHab : matriz[q] = AREA_AFETADA})
                   = TotalEsperado(chamada.forma)

\* The cross was generated into a buffer while another buffer still holds
\* non-zero garbage.
C10_Testemunha ==
    /\ chamada.op = "criarHabilidade"
    /\ chamada.forma = "CRUZ"
    /\ \E f \in Formas \ {chamada.alvo} : habilidades[f] = Lixo(1, -7)

(***************************************************************************)
(* C11: applying the cross pattern with centre (5,5) to a board whose 100  *)
(* cells are all POSICAO_VAZIA leaves exactly 9 cells                      *)
(* POSICAO_AGUA_ATINGIDA, all of them in row 5 or in column 5, and every   *)
(* other cell POSICAO_VAZIA; totalTiros grows by 9, acertos and            *)
(* naviosDestruidos do not grow.                                           *)
(***************************************************************************)
CruzEmTabuleiroVazio ==
    /\ PassoAplicar
    /\ chamada'.forma = "CRUZ"
    /\ chamada'.centro = Coord(5, 5)
    /\ tabuleiro = inicializarTabuleiro

C11_CruzNoCentro ==
    [][CruzEmTabuleiroVazio =>
        LET agua == CelulasEm(tabuleiro', POSICAO_AGUA_ATINGIDA)
        IN  /\ Cardinality(agua) = 9
            /\ \A p \in agua : p[1] = 5 \/ p[2] = 5
            /\ \A p \in Celulas \ agua : tabuleiro'[p] = POSICAO_VAZIA
            /\ stats'.totalTiros = stats.totalTiros + 9
            /\ stats'.acertos = stats.acertos
            /\ stats'.naviosDestruidos = stats.naviosDestruidos]_vars

C11_Testemunha ==
    /\ nOps = 1
    /\ chamada.op = "aplicarHabilidade"
    /\ chamada.forma = "CRUZ"
    /\ chamada.centro = Coord(5, 5)
    /\ chamada.tiros = 9
    /\ CelulasEm(tabuleiro, POSICAO_AGUA_ATINGIDA)
         = {<<5, c>> : c \in 3 .. 7} \cup {<<l, 5>> : l \in 3 .. 7}

(***************************************************************************)
(* C12: in a session in which the four ships were placed, main() makes     *)
(* three attack turns, for the cone, the cross and the octahedron in this  *)
(* order.  A turn applies its pattern, at the centre read into ataques[k], *)
(* when lerCoordenadaAtaque accepted the input; when the input was         *)
(* rejected the turn is skipped without retry and changes neither board,   *)
(* fleet nor statistics.  So at most 3 attacks are applied before the      *)
(* final statistics, and exactly 3 only when the three inputs were valid.  *)
(***************************************************************************)
TurnosDeAtaque == 0 .. 2

FormaDoTurno(k) ==
    CASE k = 0 -> "CONE" [] k = 1 -> "CRUZ" [] k = 2 -> "OCTAEDRO"

\* The attack turns whose pattern was applied.
AtaquesAplicados == {k \in TurnosDeAtaque : ataques[k] # CoordenadaNaoEscrita}

\* The board cells under the Affected cells of a shape centred at centro.
AlvoEsperado(forma, centro) ==
    {<<centro.linha - 2 + q[1], centro.coluna - 2 + q[2]>> :
        q \in AfetadasEsperadas(forma)} \cap Celulas

TurnoAplicado ==
    /\ chamada'.op = "aplicarHabilidade"
    /\ chamada'.forma = FormaDoTurno(iAtaque)
    /\ <<chamada'.centro.linha, chamada'.centro.coluna>> \in Celulas
    /\ ataques' = [ataques EXCEPT ![iAtaque] = chamada'.centro]
    /\ chamada'.acessos = AlvoEsperado(FormaDoTurno(iAtaque), chamada'.centro)
    /\ stats'.totalTiros = stats.totalTiros + Cardinality(chamada'.acessos)

TurnoIgnorado ==
    /\ chamada'.op = "lerCoordenadaAtaque"
    /\ ~chamada'.ok
    /\ UNCHANGED <<ataques, tabuleiro, navios, stats>>

C12_AtaquesDaSessao ==
    [][/\ pc = "combate" =>
           /\ iAtaque \in TurnosDeAtaque
           /\ AtaquesAplicados \subseteq 0 .. (iAtaque - 1)
           /\ TurnoAplicado \/ TurnoIgnorado
           /\ iAtaque' = iAtaque + 1
           /\ pc' = (IF iAtaque = 2 THEN "fim" ELSE "combate")
       /\ pc # "combate" =>
           /\ chamada'.op # "aplicarHabilidade"
           /\ UNCHANGED <<ataques, iAtaque>>
           /\ AtaquesAplicados = {}
           /\ pc' # "fim"]_vars

\* The literal statement: at the end of every session in which the fleet was
\* placed, the three attacks have been applied.
C12_Original == pc = "fim" => AtaquesAplicados = TurnosDeAtaque

\* The cone's input was rejected; the cross and the octahedron were applied.
C12_Testemunha ==
    /\ pc = "fim"
    /\ AtaquesAplicados = {1, 2}
    /\ chamada.op = "aplicarHabilidade"
    /\ chamada.forma = "OCTAEDRO"
    /\ chamada.centro = ataques[2]

(***************************************************************************)
(* C13: each of the four ships gets at most 5 placement attempts; an       *)
(* attempt whose coordinate input is invalid, whose orientation input is   *)
(* invalid or whose posicionarNavio call fails consumes one attempt and    *)
(* leaves the board unchanged; the fifth failed attempt for a ship aborts  *)
(* the session (main() returns 1) with no attack applied; an attack is     *)
(* applied only after the four ships are placed; and every session ends    *)
(* after at most 20 placement attempts and 3 attack turns.                 *)
(***************************************************************************)
\* Placement attempts the session can still make.
TentativasRestantes == (MAX_NAVIOS - iNavio) * maxTentativas - tentativas

\* Steps the session can still make: placement attempts, the creation of the
\* patterns and the attack turns.
PassosRestantes ==
    CASE pc = "posicionar" -> TentativasRestantes + 4
      [] pc = "habilidades" -> 4
      [] pc = "combate" -> 3 - iAtaque
      [] pc \in {"fim", "abortado"} -> 0

NavioPosicionado ==
    chamada'.op = "posicionarNavio" /\ chamada'.retorno = SUCESSO

TentativaFalhou ==
    \/ chamada'.op = "lerCoordenada" /\ ~chamada'.ok
    \/ chamada'.op = "lerOrientacao" /\ chamada'.retorno = "0"
    \/ chamada'.op = "posicionarNavio" /\ chamada'.retorno # SUCESSO

C13_Tentativas ==
    [][/\ pc = "posicionar" =>
           /\ iNavio \in 0 .. 3
           /\ tentativas \in 0 .. 4
           /\ TentativasRestantes \in 1 .. 20
           /\ NavioPosicionado \/ TentativaFalhou
           /\ NavioPosicionado =>
                  /\ iNavio' = iNavio + 1
                  /\ tentativas' = 0
                  /\ pc' = (IF iNavio = 3 THEN "habilidades" ELSE "posicionar")
           /\ TentativaFalhou =>
                  /\ iNavio' = iNavio
                  /\ tentativas' = tentativas + 1
                  /\ tabuleiro' = tabuleiro
                  /\ pc' = (IF tentativas = 4 THEN "abortado" ELSE "posicionar")
           /\ TentativasRestantes' \in 0 .. (TentativasRestantes - 1)
       /\ pc' = "abortado" =>
           /\ iNavio' < MAX_NAVIOS
           /\ tentativas' = 5
           /\ AtaquesAplicados' = {}
           /\ stats' = inicializarEstatisticas
       /\ PassoAplicar =>
           /\ iNavio = MAX_NAVIOS
           /\ \A n \in IndicesNavios : navios[n].id = n + 1
       /\ PassosRestantes \in 1 .. 24
       /\ PassosRestantes' \in 0 .. (PassosRestantes - 1)]_vars

\* The fourth ship used up its five attempts, the last one in posicionarNavio.
C13_Testemunha ==
    /\ pc = "abortado"
    /\ iNavio = 3
    /\ tentativas = 5
    /\ chamada.op = "posicionarNavio"
    /\ chamada.retorno = ERRO_POSICAO_OCUPADA
    /\ Cardinality(CelulasEm(tabuleiro, POSICAO_NAVIO)) = 10

(***************************************************************************)
(* C14: once the placement phase has succeeded the four ship records have  *)
(* lengths 4, 3, 3, 2 and ids 1..4 in placement order, their derived       *)
(* coordinate sequences are inside the grid and pairwise disjoint, and     *)
(* exactly 12 cells are POSICAO_NAVIO; during the attack phase the number  *)
(* of cells that are POSICAO_NAVIO or POSICAO_ATINGIDA stays 12, and a     *)
(* cell is POSICAO_NAVIO or POSICAO_ATINGIDA iff it belongs to the derived *)
(* sequence of exactly one ship record.                                    *)
(***************************************************************************)
TamanhoDoNavio(n) == CASE n = 0 -> 4 [] n = 1 -> 3 [] n = 2 -> 3 [] n = 3 -> 2

CelulasDeNavio == {p \in Celulas : tabuleiro[p] \in {POSICAO_NAVIO, POSICAO_ATINGIDA}}

DonosDe(p) == {n \in IndicesNavios : p \in Derivadas(navios[n])}

C14_Frota ==
    FrotaPosicionada =>
        /\ \A n \in IndicesNavios :
              /\ navios[n].tamanho = TamanhoDoNavio(n)
              /\ navios[n].id = n + 1
              /\ navios[n].orientacao \in {"H", "V", "D"}
              /\ Cardinality(Derivadas(navios[n])) = TamanhoDoNavio(n)
              /\ Derivadas(navios[n]) \subseteq Celulas
        /\ \A n \in IndicesNavios, m \in IndicesNavios :
              n # m => Derivadas(navios[n]) \cap Derivadas(navios[m]) = {}
        /\ Cardinality(CelulasDeNavio) = 12
        /\ AtaquesAplicados = {} =>
              Cardinality(CelulasEm(tabuleiro, POSICAO_NAVIO)) = 12
        /\ \A p \in Celulas : p \in CelulasDeNavio <=> Cardinality(DonosDe(p)) = 1

\* End of a session with three attacks applied: a diagonal ship in the fleet,
\* some ship cells hit and some not.
C14_Testemunha ==
    /\ pc = "fim"
    /\ AtaquesAplicados = TurnosDeAtaque
    /\ \E n \in IndicesNavios : navios[n].orientacao = "D"
    /\ Cardinality(CelulasEm(tabuleiro, POSICAO_ATINGIDA)) >= 3
    /\ Cardinality(CelulasEm(tabuleiro, POSICAO_NAVIO)) >= 3
    /\ Cardinality(CelulasDeNavio) = 12

(***************************************************************************)
(* C15: from zeroed statistics and a board with no POSICAO_ATINGIDA or     *)
(* POSICAO_AGUA_ATINGIDA cell, after any sequence of attacks stats.acertos *)
(* equals the number of POSICAO_ATINGIDA cells (at most 12 in a session)   *)
(* and stats.erros is at least the number of POSICAO_AGUA_ATINGIDA cells,  *)
(* with equality iff no attack covered a cell that was already             *)
(* POSICAO_ATINGIDA or POSICAO_AGUA_ATINGIDA.                              *)
(***************************************************************************)
\* Misses recorded beyond the water-hit cells of the board.
ErrosAMais == stats.erros - Cardinality(CelulasEm(tabuleiro, POSICAO_AGUA_ATINGIDA))

AcertosNoTabuleiro ==
    /\ stats.acertos = Cardinality(CelulasEm(tabuleiro, POSICAO_ATINGIDA))
    /\ stats.acertos <= 12
    /\ ErrosAMais >= 0

\* The cells attacked in turn k of the session, if its pattern was applied.
AlvoDoTurno(k) ==
    IF k \in AtaquesAplicados THEN AlvoEsperado(FormaDoTurno(k), ataques[k]) ELSE {}

\* No applied attack covered a cell that an earlier attack had covered.
SemCelulaRepetida ==
    \A k \in TurnosDeAtaque, m \in TurnosDeAtaque :
        k < m => AlvoDoTurno(k) \cap AlvoDoTurno(m) = {}

C15_AcertosNoTabuleiro ==
    [][/\ chamada.op = "inicio" =>
           /\ stats = inicializarEstatisticas
           /\ \A p \in Celulas : tabuleiro[p] = POSICAO_VAZIA
           /\ AtaquesAplicados = {}
       /\ PassoAplicar =>
           /\ AcertosNoTabuleiro'
           /\ ErrosAMais' = ErrosAMais + Cardinality(JaAtingidas(CobertasDoPasso))
           /\ (ErrosAMais' = 0) <=> SemCelulaRepetida'
       /\ ~PassoAplicar =>
           /\ stats' = stats
           /\ ataques' = ataques
           /\ \A p \in Celulas :
                 tabuleiro'[p] # tabuleiro[p] =>
                     tabuleiro[p] = POSICAO_VAZIA /\ tabuleiro'[p] = POSICAO_NAVIO]_vars

\* End of a session whose three attacks hit ship cells and whose later attacks
\* covered cells already attacked.
C15_Testemunha ==
    /\ pc = "fim"
    /\ AtaquesAplicados = TurnosDeAtaque
    /\ stats.acertos >= 2
    /\ stats.acertos = Cardinality(CelulasEm(tabuleiro, POSICAO_ATINGIDA))
    /\ ErrosAMais >= 2
    /\ ~SemCelulaRepetida

(***************************************************************************)
(* C16: local cell (2,2) is AREA_AFETADA in the three patterns, so every   *)
(* attack whose centre is inside the grid attempts at least 1 shot and     *)
(* shoots the centre cell; an attack attempts at most 9 shots with the     *)
(* cone or the cross and at most 5 with the octahedron; and after the      *)
(* three attacks of a session 3 <= stats.totalTiros <= 23.                 *)
(***************************************************************************)
MaximoDeTiros(forma) ==
    CASE forma = "CONE" -> 9 [] forma = "CRUZ" -> 9 [] forma = "OCTAEDRO" -> 5

\* What C16 says of one attack, from its shots and the cells it accessed.
TirosDoAtaque(forma, centro, tiros, acessos) ==
    /\ tiros >= 1
    /\ tiros <= MaximoDeTiros(forma)
    /\ <<centro.linha, centro.coluna>> \in acessos

\* The attack of each shape at each cell of the board, from the current state.
TodosOsCentros ==
    \A forma \in Formas, centro \in CentrosAtaque :
        LET r == aplicarHabilidadeNoTabuleiro(tabuleiro, habilidades[forma],
                     centro.linha, centro.coluna, navios, MAX_NAVIOS, stats)
        IN  /\ TirosDoAtaque(forma, centro, r.tiros, r.acessos)
            /\ r.tabuleiro[centro.linha, centro.coluna]
                   \in {POSICAO_ATINGIDA, POSICAO_AGUA_ATINGIDA}
            /\ r.stats.totalTiros = stats.totalTiros + r.tiros

C16_TirosPorAtaque ==
    /\ pc \in {"combate", "fim"} =>
           \A forma \in Formas : habilidades[forma][2, 2] = AREA_AFETADA
    /\ chamada.op = "criarHabilidades" => TodosOsCentros
    /\ chamada.op = "aplicarHabilidade" =>
           /\ TirosDoAtaque(chamada.forma, chamada.centro, chamada.tiros,
                            chamada.acessos)
           /\ stats.totalTiros >= Cardinality(AtaquesAplicados)
    /\ (pc = "fim" /\ AtaquesAplicados = TurnosDeAtaque) =>
           stats.totalTiros \in 3 .. 23

\* End of a session with three attacks applied, the last one at a corner where
\* the octahedron shoots only its centre cell.
C16_Testemunha ==
    /\ pc = "fim"
    /\ AtaquesAplicados = TurnosDeAtaque
    /\ chamada.op = "aplicarHabilidade"
    /\ chamada.forma = "OCTAEDRO"
    /\ chamada.centro = Coord(0, 0)
    /\ chamada.tiros = 1
    /\ chamada.acessos = {<<0, 0>>}
    /\ stats.totalTiros \in 3 .. 23

====
